---- MODULE Spec2Model ----
(***************************************************************************)
(* seqopt: an online, feedback-driven sequence re-ranker.                  *)
(*                                                                         *)
(* The model follows src/seqopt/process.py (Logs, Experiments, Trials),    *)
(* src/seqopt/callbacks.py (Progress) and src/seqopt/model.py (SeqOpt,     *)
(* save, load).                                                            *)
(*                                                                         *)
(* Logs, Experiments, Trials, the checks of Progress (early_stop and       *)
(* episode_stopper), save and load are modelled as they are written.       *)
(* SpecLedger calls the methods of an Experiments object directly,         *)
(* SpecTrials calls Trials.run, SpecSaveLoad saves and loads an            *)
(* Experiments object.                                                     *)
(*                                                                         *)
(* The driver in model.py is written against versions of these classes     *)
(* that src does not hold.  As written, SeqOpt(...) raises TypeError in    *)
(* its constructor (Experiments.__init__ takes no logger), callbacks has   *)
(* no EpisodeLimit, opt raises AttributeError at its first line (Logs has  *)
(* no logs), select_and_score and add_trial_items raise TypeError,         *)
(* Progress.invoke takes no logs, and reset_model raises AttributeError    *)
(* (Logs has no clear_logs).  Spec is the driver with these names          *)
(* resolved, each from what the driver's own lines and the documented      *)
(* behaviour require:                                                      *)
(*   self.logger            the Logs part of the engine (Experiments       *)
(*                          inherits Logs in process.py)                   *)
(*   self.logger.logs       Logs.experiment_logs                           *)
(*   self.logger.clear_logs Logs.reset_logs                                *)
(*   self.stopper           callbacks.EpisodeLimit: the ceiling check of   *)
(*                          Progress.episode_stopper on its own ceiling,   *)
(*                          the episodes argument of SeqOpt                *)
(*   self.progress.invoke(logs)  episode_stopper(logs), then               *)
(*                          early_stop(logs)                               *)
(*   self.reset             the restart signal: the engine was built with  *)
(*                          reset_experiment, the monitor has declared     *)
(*                          stagnation, and no stop is signalled for the   *)
(*                          latest episode, by the monitor or by the       *)
(*                          stopper's ceiling: stop and restart exclude    *)
(*                          each other and a ceiling stop has priority     *)
(*   self.trials.run(self.logger)  Trials.run(feed_out, unused_items)      *)
(*   scorers / selectors    helpers.py and selectors.py are absent: the    *)
(*                          default Naive per-episode scorer orders the    *)
(*                          latest feed by reward, descending and stable;  *)
(*                          the default selector keeps that ordering       *)
(*                                                                         *)
(* A Python None is the empty tuple << >> and a present value v is <<v>>.  *)
(***************************************************************************)
EXTENDS Integers, Sequences, FiniteSets, TLC

VARIABLES
    cfg,                \* constructor arguments (fixed for the engine's life)
    feeds,              \* Logs.feeds
    experiment_logs,    \* Logs.experiment_logs
    counter,            \* Logs.counter
    feed,               \* Logs.feed
    feed_out,           \* Logs.feed_out
    items_to_try,       \* Logs.items_to_try
    episode,            \* Experiments.episode
    experiment_id,      \* Experiments.experiment_id
    logged_experiments, \* Experiments.logged_experiments
    aliased,            \* logged_experiments[experiment_id] is the list object experiment_logs
    progress,           \* the Progress callback's fields
    stopper,            \* the episode-limit callback's fields
    arg,                \* the feed the last call of opt was given
    ret,                \* what the last call of opt returned
    op,                 \* the last operation and, for opt, the branch it took
    steps,              \* number of opt calls (of direct logging or monitor calls) so far
    calls,              \* number of direct add_experiment / reset calls so far
    last_eval,          \* the monitor's latest evaluation: what it had seen, what it decided
    t_in,               \* Trials.run taken alone: its inputs
    t_out,              \* Trials.run taken alone: its result
    store,              \* the files under the checkpoint locations: path -> contents
    saved,              \* the engine state save was called on, and the location
    loaded,             \* what load returned, and the location it was given
    raised              \* the exception the last save or load raised

engine == <<feeds, experiment_logs, counter, feed, feed_out, items_to_try,
            episode, experiment_id, logged_experiments, aliased, progress,
            stopper, arg, ret, op, steps, calls, last_eval>>
trial == <<t_in, t_out>>
checkpoint == <<store, saved, loaded, raised>>
vars == <<cfg, engine, trial, checkpoint>>

(***************************************************************************)
(* Bounds                                                                  *)
(***************************************************************************)
MaxSteps == 3
MaxCalls == 1
MaxTrialN == 2
MaxUnused == 2

(***************************************************************************)
(* Values                                                                  *)
(***************************************************************************)
None == << >>
Some(v) == <<v>>
Val(o) == o[1]

Range(s) == {s[i] : i \in 1..Len(s)}
Min(a, b) == IF a < b THEN a ELSE b
Put(f, k, v) == [x \in DOMAIN f \cup {k} |-> IF x = k THEN v ELSE f[x]]

Item(k, p, r) == [key |-> k, pos |-> p, reward |-> r]
KeysOf(f) == [i \in 1..Len(f) |-> f[i].key]
KeySet(f) == {f[i].key : i \in 1..Len(f)}

\* list.insert(i, x): an index past the end appends
ListInsert(s, i, x) ==
    LET j == Min(i, Len(s))
    IN  [m \in 1..Len(s) + 1 |-> IF m <= j THEN s[m] ELSE IF m = j + 1 THEN x ELSE s[m - 1]]

\* Python's round(length / 2): halves go to the even neighbour
RoundHalf(length) ==
    LET f == length \div 2
    IN  IF length % 2 = 0 THEN f ELSE IF f % 2 = 0 THEN f ELSE f + 1

\* every ordering of the elements of a finite set (the iteration order of a Python set)
RECURSIVE Orderings(_)
Orderings(S) ==
    IF S = {} THEN {<< >>}
    ELSE UNION {{<<x>> \o t : t \in Orderings(S \ {x})} : x \in S}

\* random.sample(population, k): k elements at distinct positions, in any order
RECURSIVE SamplePositions(_, _)
SamplePositions(P, k) ==
    IF k = 0 THEN {<< >>}
    ELSE UNION {{<<p>> \o t : t \in SamplePositions(P \ {p}, k - 1)} : p \in P}
random_sample(s, k) ==
    {[i \in 1..k |-> s[ps[i]]] : ps \in SamplePositions(1..Len(s), k)}

(***************************************************************************)
(* optimizers.helpers and optimizers.selectors                             *)
(***************************************************************************)
\* helpers.reposition_by_index: every item's pos becomes its index
reposition_by_index(f) == [i \in 1..Len(f) |-> [f[i] EXCEPT !.pos = i - 1]]

\* stable insertion of x into a list ordered by reward, descending
RECURSIVE InsertByReward(_, _)
InsertByReward(s, x) ==
    IF s = << >> THEN <<x>>
    ELSE IF x.reward > s[Len(s)].reward
         THEN Append(InsertByReward(SubSeq(s, 1, Len(s) - 1), x), s[Len(s)])
         ELSE Append(s, x)
RECURSIVE SortByReward(_)
SortByReward(f) ==
    IF f = << >> THEN << >>
    ELSE InsertByReward(SortByReward(SubSeq(f, 1, Len(f) - 1)), f[Len(f)])

\* helpers.reposition: order by the field, descending and stable, pos recomputed
reposition(f) == reposition_by_index(SortByReward(f))

\* scorers.do_score with the default scorer Naive(per_episode=True): score = reward
do_score(fs) == reposition(reposition(fs[Len(fs)]))

\* selectors.do_select with no selector configured: the scored ordering
do_select(scored) == scored

(***************************************************************************)
(* process.Logs                                                            *)
(***************************************************************************)
\* faulty variant: a key's count is replaced by its appearances in this feed
CounterUpdate_overwrite(c, f) ==
    [k \in DOMAIN c \cup KeySet(f) |->
        IF k \in KeySet(f) THEN Cardinality({i \in 1..Len(f) : f[i].key = k}) ELSE c[k]]

\* Counter.update(keys): one more appearance of every key
CounterUpdate(c, f) ==
    [k \in DOMAIN c \cup KeySet(f) |->
        (IF k \in DOMAIN c THEN c[k] ELSE 0) + Cardinality({i \in 1..Len(f) : f[i].key = k})]

\* Logs.population, as a set of keys
populationOf(c) ==
    IF cfg.population = None \/ Val(cfg.population) = << >> THEN DOMAIN c
    ELSE IF cfg.population_growth THEN Range(Val(cfg.population)) \cup DOMAIN c
    ELSE Range(Val(cfg.population))
population == populationOf(counter)

\* faulty variant: the population members the counter has seen
unused_itemsOf_seen(c) ==
    IF cfg.population # None /\ Val(cfg.population) # << >>
    THEN IF cfg.population_growth
         THEN Orderings({item \in Range(Val(cfg.population)) \cup DOMAIN c : item \in DOMAIN c})
         ELSE {SelectSeq(Val(cfg.population), LAMBDA item : item \in DOMAIN c)}
    ELSE {<< >>}

\* Logs.unused_items: the lists it can return.  Without population growth the
\* population is the configured list and the result is that list without the
\* keys of the counter, in the list's order.  With population growth the
\* population is a set, the configured keys united with the counter's: the
\* result has each unseen key once, in the set's iteration order, which is any
\* order.
unused_itemsOf(c) ==
    IF cfg.population # None /\ Val(cfg.population) # << >>
    THEN IF cfg.population_growth
         THEN Orderings({item \in Range(Val(cfg.population)) \cup DOMAIN c : item \notin DOMAIN c})
         ELSE {SelectSeq(Val(cfg.population), LAMBDA item : item \notin DOMAIN c)}
    ELSE {<< >>}
unused_items == unused_itemsOf(counter)

\* faulty variant: the record is numbered one past the episode it logs
EpisodeRecord_numbered_ahead(e, is_opt, f, fo, added) ==
    [episode |-> e + 1, is_opt_episode |-> is_opt, feed |-> f, feed_out |-> fo, items_added |-> added]

\* the record Logs.log_episode appends
EpisodeRecord(e, is_opt, f, fo, added) ==
    [episode |-> e, is_opt_episode |-> is_opt, feed |-> f, feed_out |-> fo, items_added |-> added]

(***************************************************************************)
(* process.Trials                                                          *)
(***************************************************************************)
\* faulty variant: every policy counts its indices from the start
find_indices_to_add_from_start(n, length, add_to) == {[i \in 1..n |-> i - 1]}

\* Trials._find_indices_to_add: the index tuples it can return (one, unless random)
find_indices_to_add(n, length, add_to) ==
    IF add_to = "last" THEN {[i \in 1..n |-> length + (i - 1)]}
    ELSE IF add_to = "first" THEN {[i \in 1..n |-> i - 1]}
    ELSE IF add_to = "middle" THEN {[i \in 1..n |-> RoundHalf(length) + (i - 1)]}
    ELSE [1..n -> 0..n]

\* the loop of Trials.add_keys: the ix-th item of the walk goes in at indices[ix]
RECURSIVE InsertAll(_, _, _, _)
InsertAll(f, walk, indices, ix) ==
    IF ix > Len(walk) THEN f
    ELSE InsertAll(ListInsert(f, indices[ix], Item(walk[ix], ix - 1, 0)), walk, indices, ix + 1)

\* faulty variant: the items already in the feed are not filtered out
add_keys_unfiltered(f, items, indices) ==
    {reposition_by_index(InsertAll(f, walk, indices, 1)) : walk \in Orderings(Range(items))}

\* Trials.add_keys: the feeds it can return, one per iteration order of the item set
add_keys(f, items, indices) ==
    LET fresh == {it \in Range(items) : it \notin KeySet(f)}
    IN  {reposition_by_index(InsertAll(f, walk, indices, 1)) : walk \in Orderings(fresh)}

\* Trials.run: the pairs <<items, feed added>> it can return
trials_run(fo, unused, n, add_to) ==
    LET n_add == IF Len(unused) < n THEN Len(unused) ELSE n
    IN  UNION {UNION {{<<items, fa>> : fa \in add_keys(fo, items, indices)} :
                        indices \in find_indices_to_add(n_add, Len(fo), add_to)} :
                 items \in random_sample(unused, n_add)}

(***************************************************************************)
(* callbacks.Progress                                                      *)
(***************************************************************************)
NewProgress == [stop |-> FALSE, is_stagnant |-> FALSE, n |-> 0, last_keys |-> << >>]

\* Progress.reset
progress_reset(p) == NewProgress

\* the gate of Progress.early_stop: there is a latest episode, patience is set,
\* and the latest episode is an optimization episode
early_stop_evaluates(logs) ==
    /\ logs # << >>
    /\ cfg.patience # None
    /\ logs[Len(logs)].is_opt_episode

\* faulty variant: stagnation raises stop whether or not do_stop is configured
early_stop_always_stops(p, logs) ==
    IF early_stop_evaluates(logs)
    THEN LET last == logs[Len(logs)]
             cur_keys == KeysOf(Val(last.feed_out))
         IN  IF cfg.start_at <= last.episode /\ p.last_keys = cur_keys
             THEN IF p.n + 1 >= Val(cfg.patience)
                  THEN [p EXCEPT !.n = p.n + 1, !.is_stagnant = TRUE, !.stop = TRUE]
                  ELSE [p EXCEPT !.n = p.n + 1, !.last_keys = cur_keys]
             ELSE [p EXCEPT !.n = 0, !.last_keys = cur_keys]
    ELSE p

\* Progress.early_stop
early_stop(p, logs) ==
    IF early_stop_evaluates(logs)
    THEN LET last == logs[Len(logs)]
             episode_num == last.episode
             cur_keys == KeysOf(Val(last.feed_out))
         IN  IF cfg.start_at <= episode_num /\ p.last_keys = cur_keys
             THEN IF p.n + 1 >= Val(cfg.patience)
                  THEN [p EXCEPT !.n = p.n + 1, !.is_stagnant = TRUE,
                                 !.stop = IF cfg.do_stop THEN TRUE ELSE p.stop]
                  ELSE [p EXCEPT !.n = p.n + 1, !.last_keys = cur_keys]
             ELSE [p EXCEPT !.n = 0, !.last_keys = cur_keys]
    ELSE p

\* the test of Progress.episode_stopper
ceiling_reached(logs) ==
    /\ cfg.n_episodes # None
    /\ logs # << >>
    /\ logs[Len(logs)].episode >= Val(cfg.n_episodes)

\* Progress.episode_stopper
episode_stopper(p, logs) == IF ceiling_reached(logs) THEN [p EXCEPT !.stop = TRUE] ELSE p

\* progress.invoke(logs) as the driver calls it: the logs handed on to both
\* checks (Progress.invoke as written takes no logs)
progress_invoke(p, logs) == early_stop(episode_stopper(p, logs), logs)

\* EpisodeLimit.invoke and EpisodeLimit.reset (the stopper of SeqOpt, built
\* with the episodes argument of SeqOpt): the ceiling check on its own ceiling
NewStopper == [stop |-> FALSE]
limit_reached(logs) ==
    /\ cfg.episodes # None
    /\ logs # << >>
    /\ logs[Len(logs)].episode >= Val(cfg.episodes)
stopper_invoke(s, logs) == IF limit_reached(logs) THEN [s EXCEPT !.stop = TRUE] ELSE s
stopper_reset(s) == NewStopper

(***************************************************************************)
(* process.Experiments                                                     *)
(***************************************************************************)
\* faulty variant: the test for records is inverted
add_experiment_inverted(logged, id, logs) == IF logs = << >> THEN Put(logged, id, logs) ELSE logged

\* faulty variant: the open experiment is stored whether or not it has records
add_experiment_unconditional(logged, id, logs) == Put(logged, id, logs)

\* Experiments.add_experiment: the history map after the call
add_experiment(logged, id, logs) == IF logs # << >> THEN Put(logged, id, logs) ELSE logged

\* Experiments.experiments
experimentsOf(logged, id, logs) == Put(logged, id, logs)
experiments == experimentsOf(logged_experiments, experiment_id, experiment_logs)

\* Experiments.output: the feed_out of the last record of the experiment with
\* the highest id; [-1] on an experiment without a record raises IndexError
outputOf(exps) ==
    LET top == exps[CHOOSE id \in DOMAIN exps : \A other \in DOMAIN exps : other <= id]
    IN  IF top = << >>
        THEN [raised |-> Some("IndexError"), value |-> None]
        ELSE [raised |-> None, value |-> Some(top[Len(top)].feed_out)]
output == outputOf(experiments)

(***************************************************************************)
(* model.SeqOpt                                                            *)
(***************************************************************************)
\* faulty variant: every episode is an optimization episode
is_opt_episode_always(e) == TRUE

\* SeqOpt.is_opt_episode
is_opt_episode(e) == IF e % cfg.interval # 0 THEN FALSE ELSE TRUE

\* faulty variant: the restart signal does not read the stop signals
reset_signal_ignores_stop(p, logs) == cfg.reset_at_end /\ p.is_stagnant

\* self.reset: the restart signal read after the monitor's evaluation of logs.
\* Restart is signalled on stagnation when the engine was built to reset, and
\* never together with stop: a stop the monitor has raised, or the stopper's
\* ceiling reached by the latest episode, has priority
reset_signal(p, logs) ==
    /\ cfg.reset_at_end
    /\ p.is_stagnant
    /\ ~p.stop
    /\ ~limit_reached(logs)

\* faulty variant: only the stopper's flag is read
stop_flagged_stopper_only(s, p) == s.stop

\* the test SeqOpt.opt makes before it executes a step
stop_flagged(s, p) == s.stop \/ p.stop

\* select_and_score followed by add_trial_items: the pairs <<items_to_try, feed_out>>
\* an optimization episode can produce once the feed is logged
optimize(fs, c) ==
    UNION {trials_run(do_select(do_score(fs)), unused, cfg.n_try, cfg.add_to) :
             unused \in unused_itemsOf(c)}

\* what the monitor's evaluation adds to the orders it has seen
Seen(le, logs) ==
    LET before == IF le.closed THEN << >> ELSE le.seen
    IN  IF early_stop_evaluates(logs)
        THEN Append(before, [keys |-> KeysOf(Val(logs[Len(logs)].feed_out)),
                             eligible |-> cfg.start_at <= logs[Len(logs)].episode])
        ELSE before

\* SeqOpt.opt from log_feed to progress.invoke: the engine's fields after them,
\* tr being what select_and_score and add_trial_items produced
Stepped(fd, tr) ==
    LET is_opt == is_opt_episode(episode)
        fo == IF is_opt THEN Some(tr[2]) ELSE feed_out
        added == IF is_opt THEN Some(tr[1]) ELSE items_to_try
        logs == Append(experiment_logs, EpisodeRecord(episode, is_opt, Some(fd), fo, added))
    IN  [feeds |-> Append(feeds, fd),
         counter |-> CounterUpdate(counter, fd),
         feed |-> Some(fd),
         feed_out |-> fo,
         items_to_try |-> added,
         experiment_logs |-> logs,
         progress |-> progress_invoke(progress, logs)]

\* the outcomes of select_and_score and add_trial_items on this step
Produced(fd) ==
    IF is_opt_episode(episode)
    THEN optimize(Append(feeds, fd), CounterUpdate(counter, fd))
    ELSE {<<None, None>>}

\* SeqOpt.opt, the branch taken when a stop flag is up
OptStopped(fd) ==
    LET s == stopper_invoke(stopper, experiment_logs)
    IN  /\ stop_flagged(s, progress)
        /\ stopper' = s
        /\ logged_experiments' =
              IF experiment_id \notin DOMAIN experiments
              THEN add_experiment(logged_experiments, experiment_id, experiment_logs)
              ELSE logged_experiments
        /\ aliased' = IF experiment_id \notin DOMAIN experiments /\ experiment_logs # << >>
                      THEN TRUE ELSE aliased
        /\ ret' = feed_out
        /\ op' = "opt_stopped"
        /\ UNCHANGED <<feeds, experiment_logs, counter, feed, feed_out, items_to_try,
                       episode, experiment_id, progress, last_eval>>

\* SeqOpt.opt, the step executed and the episode counter advanced
OptNormal(fd) ==
    LET s == stopper_invoke(stopper, experiment_logs)
    IN  /\ ~stop_flagged(s, progress)
        /\ \E tr \in Produced(fd) :
             LET n == Stepped(fd, tr)
             IN  /\ ~reset_signal(n.progress, n.experiment_logs)
                 /\ feeds' = n.feeds
                 /\ counter' = n.counter
                 /\ feed' = n.feed
                 /\ feed_out' = n.feed_out
                 /\ items_to_try' = n.items_to_try
                 /\ experiment_logs' = n.experiment_logs
                 /\ logged_experiments' =
                       IF aliased THEN Put(logged_experiments, experiment_id, n.experiment_logs)
                       ELSE logged_experiments
                 /\ progress' = n.progress
                 /\ last_eval' = [after |-> n.progress, seen |-> Seen(last_eval, n.experiment_logs),
                                  closed |-> FALSE]
                 /\ episode' = episode + 1
                 /\ ret' = n.feed_out
        /\ stopper' = s
        /\ op' = "opt_normal"
        /\ UNCHANGED <<experiment_id, aliased>>

\* SeqOpt.opt, the step executed, then add_experiment and reset_model
OptRestart(fd) ==
    LET s == stopper_invoke(stopper, experiment_logs)
    IN  /\ ~stop_flagged(s, progress)
        /\ \E tr \in Produced(fd) :
             LET n == Stepped(fd, tr)
             IN  /\ reset_signal(n.progress, n.experiment_logs)
                 /\ logged_experiments' =
                       add_experiment(logged_experiments, experiment_id, n.experiment_logs)
                 /\ last_eval' = [after |-> n.progress, seen |-> Seen(last_eval, n.experiment_logs),
                                  closed |-> TRUE]
        /\ feeds' = << >>
        /\ experiment_logs' = << >>
        /\ counter' = << >>
        /\ feed' = None
        /\ feed_out' = None
        /\ items_to_try' = None
        /\ progress' = progress_reset(progress)
        /\ stopper' = stopper_reset(s)
        /\ episode' = 0
        /\ experiment_id' = experiment_id + 1
        /\ aliased' = FALSE
        /\ ret' = None
        /\ op' = "opt_restart"

\* SeqOpt.opt, the names it uses resolved as the module's head says
Opt(fd) ==
    /\ steps < MaxSteps
    /\ steps' = steps + 1
    /\ arg' = Some(fd)
    /\ OptStopped(fd) \/ OptNormal(fd) \/ OptRestart(fd)
    /\ UNCHANGED <<cfg, calls, trial, checkpoint>>

\* a direct call of Experiments.add_experiment
AddExperiment ==
    /\ calls < MaxCalls
    /\ calls' = calls + 1
    /\ logged_experiments' = add_experiment(logged_experiments, experiment_id, experiment_logs)
    /\ aliased' = IF experiment_logs # << >> THEN TRUE ELSE aliased
    /\ op' = "add_experiment"
    /\ UNCHANGED <<cfg, feeds, experiment_logs, counter, feed, feed_out, items_to_try, episode,
                   experiment_id, progress, stopper, arg, ret, steps, last_eval, trial,
                   checkpoint>>

\* a direct call of Experiments.reset_experiment
ResetExperiment ==
    /\ calls < MaxCalls
    /\ calls' = calls + 1
    /\ logged_experiments' = add_experiment(logged_experiments, experiment_id, experiment_logs)
    /\ feeds' = << >>
    /\ experiment_logs' = << >>
    /\ counter' = << >>
    /\ feed' = None
    /\ feed_out' = None
    /\ items_to_try' = None
    /\ episode' = 0
    /\ experiment_id' = experiment_id + 1
    /\ aliased' = FALSE
    /\ op' = "reset_experiment"
    /\ UNCHANGED <<cfg, progress, stopper, arg, ret, steps, last_eval, trial, checkpoint>>

\* a direct call of Logs.reset_logs: the lists and the counter are replaced by
\* new empty ones; the episode counter, the experiment id and the history map
\* stay, the stored list being no longer the open one
ResetLogs ==
    /\ calls < MaxCalls
    /\ calls' = calls + 1
    /\ feeds' = << >>
    /\ experiment_logs' = << >>
    /\ counter' = << >>
    /\ feed' = None
    /\ feed_out' = None
    /\ items_to_try' = None
    /\ aliased' = FALSE
    /\ op' = "reset_logs"
    /\ UNCHANGED <<cfg, episode, experiment_id, logged_experiments, progress, stopper, arg, ret,
                   steps, last_eval, trial, checkpoint>>

\* a direct call of SeqOpt.reset_model, clear_logs being Logs.reset_logs: the
\* ledger, the monitor and the stopper are reset and the next experiment
\* starts, nothing being stored
ResetModel ==
    /\ calls < MaxCalls
    /\ calls' = calls + 1
    /\ feeds' = << >>
    /\ experiment_logs' = << >>
    /\ counter' = << >>
    /\ feed' = None
    /\ feed_out' = None
    /\ items_to_try' = None
    /\ progress' = progress_reset(progress)
    /\ stopper' = stopper_reset(stopper)
    /\ episode' = 0
    /\ experiment_id' = experiment_id + 1
    /\ aliased' = FALSE
    /\ last_eval' = [last_eval EXCEPT !.closed = TRUE]
    /\ op' = "reset_model"
    /\ UNCHANGED <<cfg, logged_experiments, arg, ret, steps, trial, checkpoint>>

\* a direct call of Logs.log_feed
LogFeed(fd) ==
    /\ steps < MaxSteps
    /\ steps' = steps + 1
    /\ feeds' = Append(feeds, fd)
    /\ feed' = Some(fd)
    /\ counter' = CounterUpdate(counter, fd)
    /\ op' = "log_feed"
    /\ UNCHANGED <<cfg, experiment_logs, feed_out, items_to_try, episode, experiment_id,
                   logged_experiments, aliased, progress, stopper, arg, ret, calls, last_eval,
                   trial, checkpoint>>

\* a direct call of Logs.log_episode; the list it appends to is also the entry
\* of the history map when add_experiment stored it
LogEpisode(e, is_opt) ==
    /\ steps < MaxSteps
    /\ steps' = steps + 1
    /\ LET logs == Append(experiment_logs, EpisodeRecord(e, is_opt, feed, feed_out, items_to_try))
       IN  /\ experiment_logs' = logs
           /\ logged_experiments' =
                 IF aliased THEN Put(logged_experiments, experiment_id, logs)
                 ELSE logged_experiments
    /\ op' = "log_episode"
    /\ UNCHANGED <<cfg, feeds, counter, feed, feed_out, items_to_try, episode, experiment_id,
                   aliased, progress, stopper, arg, ret, calls, last_eval, trial, checkpoint>>

\* a direct call of Progress.episode_stopper(logs), logs being a list of the
\* caller's
EpisodeStopper(logs) ==
    /\ steps < MaxSteps
    /\ steps' = steps + 1
    /\ progress' = episode_stopper(progress, logs)
    /\ op' = "episode_stopper"
    /\ UNCHANGED <<cfg, feeds, experiment_logs, counter, feed, feed_out, items_to_try, episode,
                   experiment_id, logged_experiments, aliased, stopper, arg, ret, calls,
                   last_eval, trial, checkpoint>>

\* a direct call of Progress.early_stop(logs), logs being a list of the caller's
EarlyStop(logs) ==
    /\ steps < MaxSteps
    /\ steps' = steps + 1
    /\ progress' = early_stop(progress, logs)
    /\ last_eval' = [after |-> early_stop(progress, logs), seen |-> Seen(last_eval, logs),
                     closed |-> FALSE]
    /\ op' = "early_stop"
    /\ UNCHANGED <<cfg, feeds, experiment_logs, counter, feed, feed_out, items_to_try, episode,
                   experiment_id, logged_experiments, aliased, stopper, arg, ret, calls, trial,
                   checkpoint>>

\* a direct call of Progress.reset
ProgressReset ==
    /\ calls < MaxCalls
    /\ calls' = calls + 1
    /\ progress' = progress_reset(progress)
    /\ last_eval' = [last_eval EXCEPT !.closed = TRUE]
    /\ op' = "progress_reset"
    /\ UNCHANGED <<cfg, feeds, experiment_logs, counter, feed, feed_out, items_to_try, episode,
                   experiment_id, logged_experiments, aliased, stopper, arg, ret, steps, trial,
                   checkpoint>>

(***************************************************************************)
(* The engine                                                              *)
(***************************************************************************)
\* the feeds a caller submits
Feeds ==
    { << >>,
      <<Item("a", 0, 1), Item("b", 1, 0)>>,
      <<Item("a", 0, 0), Item("b", 1, 1)>> }

AddTo == {"last", "first", "middle", "random"}

\* the arguments of SeqOpt and of the Progress handed to it, at their defaults:
\* no fixed population, no trial, no ceiling, every episode an optimization
\* episode, no restart; patience is the None SeqOpt gives the Progress it
\* builds itself (Progress's own default, 2, is among MonitorConfigs), and
\* n_episodes, which Progress requires, is None.  population_growth is the
\* default of Logs: SeqOpt has no such argument and builds Logs(population)
DefaultConfig ==
    [population |-> None, population_growth |-> FALSE,
     n_try |-> 0, add_to |-> "last", episodes |-> None, interval |-> 1,
     n_episodes |-> None, patience |-> None, start_at |-> 0, do_stop |-> FALSE,
     reset_at_end |-> FALSE]

\* SeqOpt(population, n_try, opt_interval): the population, the trial budget
\* and the optimization interval varied, trial items going to the end; the
\* feeds submitted have a key, b, that the population a, c lacks
LedgerConfigs ==
    {[DefaultConfig EXCEPT !.population = p, !.n_try = n, !.interval = i] :
        p \in {None, Some(<<"a", "b", "c">>), Some(<<"a", "c">>)}, n \in 0..1, i \in 1..2}

\* SeqOpt(episodes, opt_interval, reset_experiment, progress) with
\* progress = Progress(n_episodes, patience, start_at, do_stop): the stopper's
\* ceiling, the monitor and the optimization interval varied
MonitorConfigs ==
    {[DefaultConfig EXCEPT !.episodes = e, !.n_episodes = ne, !.interval = i, !.patience = p,
                           !.start_at = s, !.do_stop = d, !.reset_at_end = r] :
        e \in {None, Some(1)}, ne \in {None, Some(1)}, i \in 1..2,
        p \in {None, Some(1), Some(2)}, s \in 0..1, d \in BOOLEAN, r \in BOOLEAN}

\* the constructor arguments; an argument that cannot act is left at its
\* default, and a ceiling is set with the interval at its default
Configs ==
    {c \in LedgerConfigs \cup MonitorConfigs :
        /\ c.population = None => c.n_try = 0
        /\ c.patience = None => c.start_at = 0 /\ ~c.do_stop /\ ~c.reset_at_end
        /\ (c.episodes # None \/ c.n_episodes # None) => c.interval = 1}

\* Logs.__init__, Experiments.__init__, Progress.__init__
InitEngine ==
    /\ feeds = << >>
    /\ experiment_logs = << >>
    /\ counter = << >>
    /\ feed = None
    /\ feed_out = None
    /\ items_to_try = None
    /\ episode = 0
    /\ experiment_id = 0
    /\ logged_experiments = << >>
    /\ aliased = FALSE
    /\ progress = NewProgress
    /\ stopper = NewStopper
    /\ arg = None
    /\ ret = None
    /\ op = "init"
    /\ steps = 0
    /\ calls = 0
    /\ last_eval = [after |-> NewProgress, seen |-> << >>, closed |-> FALSE]

\* nothing saved, nothing loaded, no file under the checkpoint locations
InitCheckpoint ==
    /\ store = << >>
    /\ saved = None
    /\ loaded = None
    /\ raised = None

Init ==
    /\ cfg \in Configs
    /\ InitEngine
    /\ t_in = None
    /\ t_out = None
    /\ InitCheckpoint

Next ==
    \/ \E fd \in Feeds : Opt(fd)
    \/ AddExperiment
    \/ ResetExperiment
    \/ ResetModel

Spec == Init /\ [][Next]_vars

(***************************************************************************)
(* Logs and Experiments taken alone: an Experiments object, its methods    *)
(* called directly                                                         *)
(***************************************************************************)
\* the arguments of Experiments(population, population_growth)
ExperimentsConfigs ==
    {[DefaultConfig EXCEPT !.population = p, !.population_growth = g] :
        p \in {None, Some(<<"a", "b", "c">>), Some(<<"a", "c">>)}, g \in BOOLEAN}

\* the episode numbers handed to log_episode
EpisodeArgs == 0..1

InitLedger ==
    /\ cfg \in ExperimentsConfigs
    /\ InitEngine
    /\ t_in = None
    /\ t_out = None
    /\ InitCheckpoint

NextLedger ==
    \/ \E fd \in Feeds : LogFeed(fd)
    \/ \E e \in EpisodeArgs, is_opt \in BOOLEAN : LogEpisode(e, is_opt)
    \/ AddExperiment
    \/ ResetExperiment
    \/ ResetLogs

SpecLedger == InitLedger /\ [][NextLedger]_vars

(***************************************************************************)
(* Progress taken alone: its methods called directly                       *)
(***************************************************************************)
\* the arguments of Progress(n_episodes, patience, start_at, do_stop)
ProgressConfigs ==
    {[DefaultConfig EXCEPT !.n_episodes = ne, !.patience = p, !.start_at = s, !.do_stop = d] :
        ne \in {None, Some(1)}, p \in {None, Some(1), Some(2)}, s \in 0..1, d \in BOOLEAN}

\* the orderings the records carry as feed_out
ProgressOrders ==
    { << >>,
      <<Item("a", 0, 1), Item("b", 1, 0)>>,
      <<Item("b", 0, 1), Item("a", 1, 0)>> }

\* the lists of records handed to the checks: the empty list, and a list for
\* every latest record; both checks read the latest record only
ProgressLogs ==
    {<< >>} \cup
    {<<EpisodeRecord(e, is_opt, None, Some(fo), None)>> :
        e \in EpisodeArgs, is_opt \in BOOLEAN, fo \in ProgressOrders}

InitProgress ==
    /\ cfg \in ProgressConfigs
    /\ InitEngine
    /\ t_in = None
    /\ t_out = None
    /\ InitCheckpoint

NextProgress ==
    \/ \E logs \in ProgressLogs : EpisodeStopper(logs)
    \/ \E logs \in ProgressLogs : EarlyStop(logs)
    \/ ProgressReset

SpecProgress == InitProgress /\ [][NextProgress]_vars

(***************************************************************************)
(* Trials.run taken alone                                                  *)
(***************************************************************************)
\* the orderings handed to Trials.run: every ordering of every set of these keys
TrialFeeds ==
    {reposition_by_index([i \in 1..Len(ks) |-> Item(ks[i], 0, 1)]) :
        ks \in UNION {Orderings(S) : S \in SUBSET {"a", "b", "c"}}}

\* the lists handed to Trials.run as unused items: any keys, one of them a key
\* the orderings use, repeats included
RECURSIVE ListsUpTo(_, _)
ListsUpTo(S, n) ==
    IF n = 0 THEN {<< >>}
    ELSE ListsUpTo(S, n - 1) \cup {Append(l, x) : l \in {m \in ListsUpTo(S, n - 1) : Len(m) = n - 1}, x \in S}
TrialUnused == ListsUpTo({"a", "d", "e"}, MaxUnused)

InitTrials ==
    /\ cfg = DefaultConfig
    /\ InitEngine
    /\ t_in \in {Some([feed_out |-> f, unused_items |-> u, n |-> n, add_to |-> a]) :
                   f \in TrialFeeds, u \in TrialUnused, n \in 0..MaxTrialN, a \in AddTo}
    /\ t_out = None
    /\ InitCheckpoint

\* one call of Trials.run
TrialsRun ==
    /\ t_out = None
    /\ \E r \in trials_run(Val(t_in).feed_out, Val(t_in).unused_items, Val(t_in).n, Val(t_in).add_to) :
          t_out' = Some([items |-> r[1], feed_added |-> r[2]])
    /\ UNCHANGED <<cfg, engine, t_in, checkpoint>>

NextTrials == TrialsRun

SpecTrials == InitTrials /\ [][NextTrials]_vars

(***************************************************************************)
(* model.save and model.load                                               *)
(***************************************************************************)
\* the directories that exist; a path is a tuple of names
Dirs == {<<"ckpt">>}

\* the locations a caller hands to save and load: the checkpoint directory,
\* the file save writes in it, and a location that does not exist
Paths == {<<"ckpt">>, <<"ckpt", "seqopt">>, <<"nowhere">>}

\* the object handed to save: the engine with all its fields
EngineState ==
    [cfg |-> cfg, feeds |-> feeds, experiment_logs |-> experiment_logs, counter |-> counter,
     feed |-> feed, feed_out |-> feed_out, items_to_try |-> items_to_try, episode |-> episode,
     experiment_id |-> experiment_id, logged_experiments |-> logged_experiments,
     progress |-> progress, stopper |-> stopper]

\* model.save: open(f'{path}/seqopt', 'w') creates or empties the file when path
\* is a directory; pickle.dump then hands bytes to the text-mode file, whose
\* write raises TypeError before anything is written
Save(path) ==
    /\ saved = None
    /\ saved' = Some([path |-> path, state |-> EngineState])
    /\ IF path \in Dirs
       THEN /\ store' = Put(store, Append(path, "seqopt"), << >>)
            /\ raised' = Some("TypeError")
       ELSE /\ store' = store
            /\ raised' = Some(IF path \in DOMAIN store THEN "NotADirectoryError"
                                                       ELSE "FileNotFoundError")
    /\ op' = "save"
    /\ UNCHANGED <<cfg, feeds, experiment_logs, counter, feed, feed_out, items_to_try, episode,
                   experiment_id, logged_experiments, aliased, progress, stopper, arg, ret,
                   steps, calls, last_eval, trial, loaded>>

\* model.load: open(path, 'r') fails on a directory and on a missing file;
\* pickle.load fails on the text the file yields (TypeError); nothing is returned
Load(path) ==
    /\ saved # None
    /\ loaded = None
    /\ loaded' = Some([path |-> path, model |-> None])
    /\ raised' = Some(IF path \in Dirs THEN "IsADirectoryError"
                      ELSE IF path \in DOMAIN store THEN "TypeError"
                      ELSE "FileNotFoundError")
    /\ op' = "load"
    /\ UNCHANGED <<cfg, feeds, experiment_logs, counter, feed, feed_out, items_to_try, episode,
                   experiment_id, logged_experiments, aliased, progress, stopper, arg, ret,
                   steps, calls, last_eval, trial, store, saved>>

\* an Experiments object, fed through its own methods, saved and loaded
InitSaveLoad == InitLedger

NextSaveLoad ==
    \/ \E fd \in Feeds : LogFeed(fd)
    \/ \E e \in EpisodeArgs, is_opt \in BOOLEAN : LogEpisode(e, is_opt)
    \/ \E path \in Paths : Save(path)
    \/ \E path \in Paths : Load(path)

SpecSaveLoad == InitSaveLoad /\ [][NextSaveLoad]_vars

(***************************************************************************)
(* Properties                                                              *)
(***************************************************************************)
OptOps == {"opt_stopped", "opt_normal", "opt_restart"}

\* an optimization episode has run in this engine
EpisodeHasRun == experiment_logs # << >> \/ DOMAIN logged_experiments # {}

\* C1 (as claimed): with an episode ceiling N the open experiment never holds
\* more than N EpisodeRecords: the steps after the N-th append nothing.
C1_EpisodeCeiling ==
    /\ cfg.n_episodes # None => Len(experiment_logs) <= Val(cfg.n_episodes)
    /\ cfg.episodes # None => Len(experiment_logs) <= Val(cfg.episodes)

\* C2 (as claimed): after a driver step that found the stop condition with at
\* least one EpisodeRecord in the open experiment, the history map holds those
\* records under the current experiment id.
C2_ArchiveOnStop ==
    (op = "opt_stopped" /\ experiment_logs # << >>) =>
        /\ experiment_id \in DOMAIN logged_experiments
        /\ logged_experiments[experiment_id] = experiment_logs

\* a stop flag is up, set by the ceiling check or by stagnation
StopIsSet == stopper.stop \/ progress.stop

\* C3: a driver step taken while a stop flag is up logs nothing: the raw feeds,
\* the counter, the records, the episode counter, the experiment id and
\* feed_out stay as they were and the step returns the previous feed_out; and
\* once a stop flag is up, one is up after every later operation but
\* reset_model, which takes the flags down.
C3_StoppedStepsExecuteNothing ==
    [][StopIsSet =>
          /\ StopIsSet' <=> op' # "reset_model"
          /\ steps' = steps + 1 =>
                /\ UNCHANGED <<feeds, counter, experiment_logs, episode, experiment_id, feed_out, feed>>
                /\ ret' = feed_out
                /\ op' = "opt_stopped"]_vars

\* C3 witness: a stopped step after a stagnation stop, with an ordering to return
C3_Witness ==
    /\ op = "opt_stopped"
    /\ progress.is_stagnant
    /\ progress.stop
    /\ ret # None
    /\ arg # experiment_logs[Len(experiment_logs)].feed

\* C4 (as claimed): on a restarting step the submitted feed is logged as the
\* first feed, episode 0, of the new experiment and is not in the archived one.
C4_RestartThenStep ==
    op = "opt_restart" =>
        /\ feeds = <<Val(arg)>>
        /\ Len(experiment_logs) = 1
        /\ experiment_logs[1].episode = 0
        /\ experiment_logs[1].feed = arg
        /\ \A i \in 1..Len(logged_experiments[experiment_id - 1]) :
              logged_experiments[experiment_id - 1][i].feed # arg

\* C4 (amended): on a restarting step the driver executes the step in the
\* current experiment first: the submitted feed is logged and recorded there.
\* Then it archives that experiment, whose last record is the step's, under its
\* id and resets the Ledger and the Monitor: the new experiment starts with no
\* feed, no record and episode 0, and the step returns None.
C4_StepThenRestart ==
    [][op' = "opt_restart" =>
          /\ steps' = steps + 1
          /\ experiment_id' = experiment_id + 1
          /\ experiment_id \in DOMAIN logged_experiments'
          /\ LET archived == logged_experiments'[experiment_id]
             IN  /\ Len(archived) = Len(experiment_logs) + 1
                 /\ SubSeq(archived, 1, Len(experiment_logs)) = experiment_logs
                 /\ archived[Len(archived)].feed = arg'
                 /\ archived[Len(archived)].episode = episode
          /\ feeds' = << >> /\ experiment_logs' = << >> /\ counter' = << >>
          /\ feed' = None /\ feed_out' = None /\ items_to_try' = None
          /\ episode' = 0
          /\ progress' = NewProgress /\ stopper' = NewStopper
          /\ ret' = None]_vars

\* C4 witness: a restart that archived an experiment of two episodes, the
\* second one holding the feed of the restarting step
C4_Witness ==
    /\ op = "opt_restart"
    /\ experiment_id = 1
    /\ Len(logged_experiments[0]) = 2
    /\ logged_experiments[0][2].feed = arg
    /\ Val(arg) # << >>
    /\ experiment_logs = << >>

\* C5 (as claimed): every driver step returns the engine's feed_out as it is at
\* the end of the step, and none returns None once an episode has run.
C5_StepOutput ==
    op \in OptOps =>
        /\ ret = feed_out
        /\ EpisodeHasRun => ret # None

\* the keys Trials.run added to the ordering it was given
NewKeys == KeySet(Val(t_out).feed_added) \ KeySet(Val(t_in).feed_out)
NoDuplicateKey(f) == \A i, j \in 1..Len(f) : f[i].key = f[j].key => i = j
Budget == Min(Val(t_in).n, Len(Val(t_in).unused_items))

\* C6 (as claimed): whatever the ordering and the list of unused items, the
\* ordering Trials.run returns keeps every input key, repeats no key, and has
\* exactly min(n, |unused_items|) keys that the input did not have.
C6_TrialInjector ==
    t_out # None =>
        /\ KeySet(Val(t_in).feed_out) \subseteq KeySet(Val(t_out).feed_added)
        /\ NoDuplicateKey(Val(t_out).feed_added)
        /\ Cardinality(NewKeys) = Budget

\* the unused items are distinct keys, none of them a key of the ordering
UnusedAreFresh ==
    /\ \A i, j \in 1..Len(Val(t_in).unused_items) :
          Val(t_in).unused_items[i] = Val(t_in).unused_items[j] => i = j
    /\ Range(Val(t_in).unused_items) \cap KeySet(Val(t_in).feed_out) = {}

\* C6 (amended): the ordering Trials.run returns keeps every input key and
\* repeats no key; it has at most min(n, |unused_items|) new keys, all of them
\* unused items, and exactly that many when the unused items are distinct keys
\* that the input ordering does not hold.
C6_TrialInjectorFresh ==
    t_out # None =>
        /\ KeySet(Val(t_in).feed_out) \subseteq KeySet(Val(t_out).feed_added)
        /\ NoDuplicateKey(Val(t_out).feed_added)
        /\ NewKeys \subseteq Range(Val(t_in).unused_items)
        /\ Cardinality(NewKeys) <= Budget
        /\ UnusedAreFresh => Cardinality(NewKeys) = Budget

\* C6 witness: a budget above the number of unused items, clamped to them
C6_Witness ==
    /\ t_out # None
    /\ UnusedAreFresh
    /\ Val(t_in).n > Len(Val(t_in).unused_items)
    /\ Cardinality(NewKeys) = 1
    /\ Len(Val(t_in).feed_out) = 2

\* C7 (as claimed): the population after any operation holds every key of the
\* population before it.
C7_PopulationNeverShrinks == [][population \subseteq population']_vars

\* the number of repeats the latest evaluated order ends: an evaluation of an
\* optimization episode at or after start_at whose key order is that of the
\* optimization episode evaluated before it
RECURSIVE Repeats(_)
Repeats(seen) ==
    LET i == Len(seen)
    IN  IF i >= 2 /\ seen[i].eligible /\ seen[i].keys = seen[i - 1].keys
        THEN Repeats(SubSeq(seen, 1, i - 1)) + 1
        ELSE 0

\* C8 (as claimed): the monitor has declared stagnation exactly when some
\* evaluation so far was the patience-th repeat in a row.
C8_StagnationTiming ==
    cfg.patience # None =>
        (last_eval.after.is_stagnant <=>
            \E i \in 1..Len(last_eval.seen) :
                Repeats(SubSeq(last_eval.seen, 1, i)) >= Val(cfg.patience))

\* C8, its scope: in every run whose first evaluated order is not empty, the
\* monitor's count is the number of repeats and stagnation is declared exactly
\* when a patience-th repeat in a row has been evaluated.
C8_NonEmptyFirstOrder ==
    (cfg.patience # None /\ last_eval.seen # << >> /\ last_eval.seen[1].keys # << >>) =>
        /\ last_eval.after.n = Repeats(last_eval.seen)
        /\ C8_StagnationTiming

\* the records the latest driver step evaluated: those of the experiment it
\* ran in, archived since if the step restarted
EvaluatedLogs ==
    IF op = "opt_restart" THEN logged_experiments[experiment_id - 1] ELSE experiment_logs

\* the latest driver step ran the monitor, which holds stagnation declared,
\* in an engine built to reset, on an episode that reached a ceiling
CeilingWithStagnation ==
    /\ op \in {"opt_normal", "opt_restart"}
    /\ cfg.reset_at_end
    /\ last_eval.after.is_stagnant
    /\ ceiling_reached(EvaluatedLogs) \/ limit_reached(EvaluatedLogs)

Declared ==
    /\ op \in {"opt_normal", "opt_restart"}
    /\ cfg.patience # None
    /\ last_eval.after.n >= Val(cfg.patience)

NumberedFromZero(logs) == \A k \in 1..Len(logs) : logs[k].episode = k - 1

\* an operation that closes the open experiment and starts the next one
ResetOps == {"opt_restart", "reset_experiment", "reset_model"}

\* C11: in every experiment, open or archived, the k-th EpisodeRecord (0-based)
\* has episode k; the episode counter is the number of records of the open
\* experiment; every executed driver step adds exactly one record, to the
\* experiment that was open; and the counter goes back to 0 only on a reset.
C11_EpisodeNumbering ==
    /\ [](/\ NumberedFromZero(experiment_logs)
          /\ \A id \in DOMAIN logged_experiments : NumberedFromZero(logged_experiments[id])
          /\ episode = Len(experiment_logs))
    /\ [][/\ op' = "opt_normal" =>
                /\ Len(experiment_logs') = Len(experiment_logs) + 1
                /\ experiment_logs'[Len(experiment_logs')].episode = episode
                /\ episode' = episode + 1
          /\ op' = "opt_restart" =>
                /\ Len(logged_experiments'[experiment_id]) = Len(experiment_logs) + 1
                /\ logged_experiments'[experiment_id][episode + 1].episode = episode
          /\ op' = "opt_stopped" => experiment_logs' = experiment_logs /\ episode' = episode
          /\ episode' < episode => episode' = 0 /\ op' \in ResetOps
          /\ op' \in ResetOps => episode' = 0]_vars

\* C11 witness: an archived experiment of two episodes and an open one whose
\* numbering has started again at 0
C11_Witness ==
    /\ experiment_id = 1
    /\ 0 \in DOMAIN logged_experiments
    /\ Len(logged_experiments[0]) = 2
    /\ logged_experiments[0][2].episode = 1
    /\ Len(experiment_logs) = 1
    /\ experiment_logs[1].episode = 0
    /\ episode = 1

\* C12: the experiment id starts at 0 and only a reset changes it, by one up;
\* every id in the history map is at most the current id; and no experiment
\* without an EpisodeRecord is in the history map.
C12_ExperimentIds ==
    /\ experiment_id = 0
    /\ [](\A id \in DOMAIN logged_experiments :
             /\ id \in 0..experiment_id
             /\ logged_experiments[id] # << >>)
    /\ [][/\ experiment_id' \in {experiment_id, experiment_id + 1}
          /\ experiment_id' = experiment_id + 1 <=> op' \in ResetOps
          /\ \A id \in DOMAIN logged_experiments : id \in DOMAIN logged_experiments']_vars

\* C12 witness: a second reset, called on an experiment without a record: the
\* id moved on to 2 and the empty experiment 1 is not in the history map
C12_Witness ==
    /\ op = "reset_experiment"
    /\ experiment_id = 2
    /\ DOMAIN logged_experiments = {0}

\* C13: with a fixed population and population growth disabled, no operation
\* but a reset of the ledger (reset_experiment, reset_logs) makes unused_items
\* longer, whatever the feed submitted: every unused item after it was an
\* unused item before it.
C13_UnusedItemsShrinkOnly ==
    [][(cfg.population # None /\ ~cfg.population_growth
          /\ op' \notin {"reset_experiment", "reset_logs"}) =>
          \A before \in unused_items : \A after \in unused_items' :
              /\ Len(after) <= Len(before)
              /\ Range(after) \subseteq Range(before)]_vars

\* C13 witness: after an empty feed both members of the population a, c are
\* unused; a feed with a and the outside key b then leaves c alone unused
C13_Witness ==
    /\ cfg.population = Some(<<"a", "c">>)
    /\ ~cfg.population_growth
    /\ op = "log_feed"
    /\ Len(feeds) = 2
    /\ feeds[1] = << >>
    /\ "b" \in KeySet(feeds[2])
    /\ "b" \in DOMAIN counter
    /\ unused_items = {<<"c">>}

\* the number of appearances of a key in a list of feeds
RECURSIVE Appearances(_, _)
Appearances(fs, k) ==
    IF fs = << >> THEN 0
    ELSE Appearances(SubSeq(fs, 1, Len(fs) - 1), k)
            + Cardinality({i \in 1..Len(fs[Len(fs)]) : fs[Len(fs)][i].key = k})

\* C14: between steps the counter holds exactly the keys of the feeds logged in
\* the open experiment, each with its number of appearances in them; there is
\* one logged feed per EpisodeRecord, the record's own; and right after an
\* experiment is closed the counter and the logged feeds are empty.
C14_OccurrenceCounter ==
    /\ DOMAIN counter = UNION {KeySet(feeds[i]) : i \in 1..Len(feeds)}
    /\ \A k \in DOMAIN counter : counter[k] = Appearances(feeds, k)
    /\ Len(feeds) = Len(experiment_logs)
    /\ \A i \in 1..Len(feeds) : experiment_logs[i].feed = Some(feeds[i])
    /\ op \in ResetOps => counter = << >> /\ feeds = << >>

\* C14 witness: key a appeared in both feeds of the archived experiment and
\* once in the open one, where its count is 1
C14_Witness ==
    /\ experiment_id = 1
    /\ 0 \in DOMAIN logged_experiments
    /\ Len(logged_experiments[0]) = 2
    /\ \A i \in 1..2 : "a" \in KeySet(Val(logged_experiments[0][i].feed))
    /\ Len(feeds) = 1
    /\ "a" \in DOMAIN counter
    /\ counter["a"] = 1

\* C15 (as claimed): load(path) after save(engine, path) raises nothing and
\* returns an engine with the state the saved engine had; its next step, on the
\* same feed and random choices, is then the step of the saved engine.
C15_CheckpointRoundTrip ==
    (op = "load" /\ Val(loaded).path = Val(saved).path) =>
        /\ raised = None
        /\ Val(loaded).model = Some(Val(saved).state)

\* the flag of every record of an experiment says whether its episode number
\* is a multiple of the optimization interval
FlaggedByInterval(logs) ==
    \A k \in 1..Len(logs) : logs[k].is_opt_episode <=> (logs[k].episode % cfg.interval = 0)

\* the items of an ordering whose keys are keys of a feed
FromFeed(fo, fd) == SelectSeq(fo, LAMBDA item : item.key \in KeySet(fd))

\* C16: the record of every executed step is flagged as an optimization
\* episode exactly when its episode number is a multiple of opt_interval.  On a
\* normal step at such an episode feed_out is recomputed from the submitted
\* feed: it holds the feed's items, rewards kept, ordered by reward.  On a
\* normal step at any other episode feed_out and the injected keys stay as they
\* were, and the record carries the feed_out of the record before it.
C16_OptimizationInterval ==
    /\ [](/\ FlaggedByInterval(experiment_logs)
          /\ \A id \in DOMAIN logged_experiments : FlaggedByInterval(logged_experiments[id]))
    /\ [][op' = "opt_normal" =>
             LET rec == experiment_logs'[Len(experiment_logs')]
             IN  /\ rec.feed = arg'
                 /\ rec.feed_out = feed_out'
                 /\ IF episode % cfg.interval = 0
                    THEN /\ rec.is_opt_episode
                         /\ feed_out' # None
                         /\ KeysOf(FromFeed(Val(feed_out'), Val(arg'))) =
                               KeysOf(SortByReward(Val(arg')))
                         /\ \A i \in 1..Len(Val(feed_out')) : \A j \in 1..Len(Val(arg')) :
                               Val(feed_out')[i].key = Val(arg')[j].key =>
                                   Val(feed_out')[i].reward = Val(arg')[j].reward
                    ELSE /\ ~rec.is_opt_episode
                         /\ feed_out' = feed_out
                         /\ items_to_try' = items_to_try
                         /\ experiment_logs # << >>
                         /\ rec.feed_out = experiment_logs[Len(experiment_logs)].feed_out]_vars

\* C16 witness: interval 2 and a trial budget with an item left to inject: the
\* second step is handed a feed that orders the keys the other way, and its
\* record carries the first step's feed_out
C16_Witness ==
    /\ cfg.interval = 2
    /\ cfg.n_try = 1
    /\ op = "opt_normal"
    /\ Len(experiment_logs) = 2
    /\ experiment_logs[1].is_opt_episode
    /\ ~experiment_logs[2].is_opt_episode
    /\ experiment_logs[2].feed_out = experiment_logs[1].feed_out
    /\ Val(experiment_logs[2].feed) # << >>
    /\ KeysOf(SortByReward(Val(experiment_logs[2].feed))) #
          KeysOf(SortByReward(Val(experiment_logs[1].feed)))
    /\ << >> \notin unused_items

\* C17 (as claimed): the records stored under an id in the history map are not
\* changed by any later step, by the log_feed and log_episode of a step in the
\* still-open experiment after a call of add_experiment included.
C17_ArchivedImmutable ==
    [][steps' = steps + 1 =>
          \A id \in DOMAIN logged_experiments :
              /\ id \in DOMAIN logged_experiments'
              /\ logged_experiments'[id] = logged_experiments[id]]_vars

\* C18 (as claimed): in every state the output getter raises nothing, and after
\* an executed step it yields what that step returned.
C18_OutputGetter ==
    /\ output.raised = None
    /\ op \in {"opt_normal", "opt_restart"} => output.value = Some(ret)

\* Trials.run taken alone: the ordering handed in, the ordering returned
TrialIn == Val(t_in).feed_out
TrialOut == Val(t_out).feed_added

\* what every insertion policy does: the injected entries have reward 0, the
\* input items are all there, rewards kept, in their order, and every pos is
\* the item's index
InsertedInPlace ==
    /\ Len(TrialOut) = Len(TrialIn) + Cardinality(NewKeys)
    /\ \A i \in 1..Len(TrialOut) :
          /\ TrialOut[i].pos = i - 1
          /\ TrialOut[i].key \in NewKeys => TrialOut[i].reward = 0
    /\ [i \in 1..Len(TrialIn) |-> [key |-> TrialIn[i].key, reward |-> TrialIn[i].reward]] =
          [i \in 1..Len(TrialIn) |->
              [key |-> FromFeed(TrialOut, TrialIn)[i].key,
               reward |-> FromFeed(TrialOut, TrialIn)[i].reward]]

\* append puts the injected keys after the input, prepend before it
InsertedAtEnds ==
    /\ Val(t_in).add_to = "last" =>
          /\ KeysOf(SubSeq(TrialOut, 1, Len(TrialIn))) = KeysOf(TrialIn)
          /\ \A i \in Len(TrialIn) + 1..Len(TrialOut) : TrialOut[i].key \in NewKeys
    /\ Val(t_in).add_to = "first" =>
          /\ \A i \in 1..Cardinality(NewKeys) : TrialOut[i].key \in NewKeys
          /\ KeysOf(SubSeq(TrialOut, Cardinality(NewKeys) + 1, Len(TrialOut))) = KeysOf(TrialIn)

\* the i-th computed index is an insertion point of the ordering as it is when
\* the i-th key goes in: at most its length then
IndicesWithin(policies) ==
    Val(t_in).add_to \in policies =>
        \A indices \in find_indices_to_add(Budget, Len(TrialIn), Val(t_in).add_to) :
            \A i \in 1..Budget : indices[i] \in 0..Len(TrialIn) + i - 1

\* C19 (as claimed): append and prepend place the injected keys at the end and
\* at the start; under every policy the injected entries have reward 0, the
\* input keeps its order and pos is the index; and the indices every policy
\* computes, middle and random included, are insertion points of the ordering.
C19_InsertionPositions ==
    t_out # None =>
        /\ InsertedAtEnds
        /\ InsertedInPlace
        /\ IndicesWithin(AddTo)

\* C19 (amended): as claimed for the placement, the rewards, the order and pos.
\* The indices of append, prepend and middle are insertion points of the
\* ordering; a random index is any of 0..k, k the number of sampled keys,
\* whatever the length of the ordering, and where it is past the end the key is
\* appended.
C19_InsertionPositionsClamped ==
    t_out # None =>
        /\ InsertedAtEnds
        /\ InsertedInPlace
        /\ IndicesWithin({"last", "first", "middle"})
        /\ Val(t_in).add_to = "random" =>
              /\ \A indices \in find_indices_to_add(Budget, Len(TrialIn), "random") :
                    \A i \in 1..Budget : indices[i] \in 0..Budget
              /\ Budget > Len(TrialIn) =>
                    \E indices \in find_indices_to_add(Budget, Len(TrialIn), "random") :
                        indices[1] > Len(TrialIn)

\* C19 witness: two keys injected at random indices into an empty ordering,
\* where every index above 0 is past the end for the first key
C19_Witness ==
    /\ t_out # None
    /\ Val(t_in).add_to = "random"
    /\ TrialIn = << >>
    /\ Budget = 2
    /\ Cardinality(NewKeys) = 2
    /\ Len(TrialOut) = 2

\* the keys of the feeds logged in the open experiment
SeenKeys == UNION {KeySet(feeds[i]) : i \in 1..Len(feeds)}

\* C20 (as claimed): after every executed step the items_added of its record
\* are population members that appeared in no feed of the open experiment up
\* to and including that step; every key of feed_out is one of them or a key of
\* such a feed; and where the step recomputed feed_out they are exactly the
\* keys of feed_out that the scored feed did not hold.
C20_InjectedKeyReport ==
    op = "opt_normal" =>
        LET rec == experiment_logs[Len(experiment_logs)]
            added == Range(Val(rec.items_added))
        IN  /\ added \subseteq population
            /\ added \cap SeenKeys = {}
            /\ KeySet(Val(rec.feed_out)) \subseteq added \cup SeenKeys
            /\ rec.is_opt_episode => added = KeySet(Val(rec.feed_out)) \ KeySet(Val(rec.feed))

\* C20, its scope: on the steps that recompute feed_out the report is exact.
C20_OnOptimizationEpisodes ==
    (op = "opt_normal" /\ experiment_logs[Len(experiment_logs)].is_opt_episode) =>
        C20_InjectedKeyReport

====
